---------------------------- MODULE Spec2Model ----------------------------
(***************************************************************************)
(* A model of NPFG, the lateral-directional nonlinear path following       *)
(* guidance law with excess wind handling (npfg.cpp).                      *)
(*                                                                         *)
(* Single precision scalars are modelled as fixed-point integers: the      *)
(* integer n stands for the real n / SCALE.  The IEEE special values NaN,  *)
(* +Inf and -Inf are three integers outside the range of every finite      *)
(* value; every arithmetic operator and every comparison treats them as    *)
(* the C operators do (a comparison with NaN is false, 0/0 is NaN, ...).   *)
(* 2D vectors are pairs <<x, y>>.                                          *)
(***************************************************************************)
EXTENDS Integers, Sequences, FiniteSets, TLC

(***************************************************************************)
(* Fixed-point arithmetic with IEEE special values                         *)
(***************************************************************************)

\* one unit of the fixed-point representation is 1/SCALE
SCALE == 10 * 10

NaN == 2100 * 1000 * 1000

Infinity == 2000 * 1000 * 1000

NegInfinity == 0 - Infinity

IsNaN(x) == x = NaN

IsInf(x) == x = Infinity \/ x = NegInfinity

\* PX4_ISFINITE
IsFinite(x) == x < Infinity /\ x > NegInfinity

AbsInt(n) == IF n < 0 THEN 0 - n ELSE n

SignInt(n) == IF n < 0 THEN 0 - 1 ELSE IF n > 0 THEN 1 ELSE 0

\* n / d rounded to the nearest integer, symmetric about zero (d > 0)
RDiv(n, d) ==
    IF n >= 0 THEN (2 * n + d) \div (2 * d) ELSE 0 - ((d - 2 * n) \div (2 * d))

\* C comparisons: false as soon as one side is NaN
Lt(a, b) == a < b /\ ~IsNaN(a) /\ ~IsNaN(b)

Gt(a, b) == Lt(b, a)

Le(a, b) == a <= b /\ ~IsNaN(a) /\ ~IsNaN(b)

Ge(a, b) == Le(b, a)

FNeg(a) == IF IsNaN(a) THEN NaN ELSE 0 - a

\* fabsf
FAbs(a) == IF IsNaN(a) THEN NaN ELSE AbsInt(a)

FAdd(a, b) ==
    IF IsFinite(a) /\ IsFinite(b) THEN a + b
    ELSE IF IsNaN(a) \/ IsNaN(b) THEN NaN
    ELSE IF IsInf(a) /\ IsInf(b) THEN (IF a = b THEN a ELSE NaN)
    ELSE IF IsInf(a) THEN a
    ELSE IF IsInf(b) THEN b
    ELSE a + b

FSub(a, b) == FAdd(a, FNeg(b))

\* a value with the sign of s and infinite magnitude
InfOfSign(s) == IF s < 0 THEN NegInfinity ELSE Infinity

FMul(a, b) ==
    IF IsFinite(a) /\ IsFinite(b) THEN RDiv(a * b, SCALE)
    ELSE IF IsNaN(a) \/ IsNaN(b) THEN NaN
    ELSE IF IsInf(a) \/ IsInf(b)
         THEN (IF a = 0 \/ b = 0 THEN NaN ELSE InfOfSign(SignInt(a) * SignInt(b)))
    ELSE RDiv(a * b, SCALE)

FDiv(a, b) ==
    IF IsFinite(a) /\ IsFinite(b) /\ b > 0 THEN RDiv(a * SCALE, b)
    ELSE IF IsNaN(a) \/ IsNaN(b) THEN NaN
    ELSE IF IsInf(a) THEN (IF IsInf(b) THEN NaN
                           ELSE InfOfSign(SignInt(a) * (IF b < 0 THEN 0 - 1 ELSE 1)))
    ELSE IF IsInf(b) THEN 0
    ELSE IF b = 0 THEN (IF a = 0 THEN NaN ELSE InfOfSign(SignInt(a)))
    ELSE 0 - RDiv(a * SCALE, 0 - b)

Square(a) == FMul(a, a)

\* math::max, math::min and math::constrain, written as the templates are
FMax(a, b) == IF Gt(a, b) THEN a ELSE b

FMin(a, b) == IF Lt(a, b) THEN a ELSE b

Constrain(val, min_val, max_val) ==
    IF Lt(val, min_val) THEN min_val
    ELSE IF Gt(val, max_val) THEN max_val
    ELSE val

RECURSIVE ISqrtNewton(_, _)
\* Newton's iteration for the integer square root of n from an estimate x above it
ISqrtNewton(n, x) ==
    LET y == (x + n \div x) \div 2
    IN  IF y >= x THEN x ELSE ISqrtNewton(n, y)

\* the square root of the natural number n, rounded to the nearest integer
ISqrt(n) ==
    LET r == IF n = 0 THEN 0
             ELSE ISqrtNewton(n, IF n < 10000 THEN 100
                                 ELSE IF n < 1000000 THEN 1000
                                 ELSE IF n < 100000000 THEN 10000
                                 ELSE 46341)
    IN  IF n - r * r > r THEN r + 1 ELSE r

\* the square of a fixed-point value, in units of 1/SCALE^2
WSq(a) == IF IsFinite(a) THEN a * a ELSE IF IsNaN(a) THEN NaN ELSE Infinity

\* sqrtf of a value in units of 1/SCALE^2, as a fixed-point value
WSqrt(w) ==
    IF IsFinite(w) /\ w >= 0 THEN ISqrt(w)
    ELSE IF w = Infinity THEN Infinity
    ELSE NaN

\* sqrtf(a * a + b * b)
SqrtSumSq(a, b) == WSqrt(FAdd(WSq(a), WSq(b)))

\* sqrtf(math::max(a * a - b * b, 0.0f))
SqrtDiffSq(a, b) == WSqrt(FMax(FSub(WSq(a), WSq(b)), 0))

(***************************************************************************)
(* 2D vectors (matrix::Vector2f)                                           *)
(***************************************************************************)

VecIsNaN(v) == IsNaN(v[1]) \/ IsNaN(v[2])

VecIsFinite(v) == IsFinite(v[1]) /\ IsFinite(v[2])

VAdd(a, b) == <<FAdd(a[1], b[1]), FAdd(a[2], b[2])>>

VSub(a, b) == <<FSub(a[1], b[1]), FSub(a[2], b[2])>>

VNeg(a) == <<FNeg(a[1]), FNeg(a[2])>>

VScale(s, a) == <<FMul(s, a[1]), FMul(s, a[2])>>

\* a(0) * b(0) + a(1) * b(1), rounded once
Dot(a, b) ==
    IF VecIsFinite(a) /\ VecIsFinite(b)
    THEN RDiv(a[1] * b[1] + a[2] * b[2], SCALE)
    ELSE FAdd(FMul(a[1], b[1]), FMul(a[2], b[2]))

\* cross2D: a(0) * b(1) - a(1) * b(0), rounded once
cross2D(a, b) ==
    IF VecIsFinite(a) /\ VecIsFinite(b)
    THEN RDiv(a[1] * b[2] - a[2] * b[1], SCALE)
    ELSE FSub(FMul(a[1], b[2]), FMul(a[2], b[1]))

Norm(a) == SqrtSumSq(a[1], a[2])

\* Vector::normalized(): the vector divided by its norm (NaN for the zero vector)
Normalized(a) == LET n == Norm(a) IN <<FDiv(a[1], n), FDiv(a[2], n)>>

(***************************************************************************)
(* Constants of the guidance law (npfg.hpp) and of the platform             *)
(***************************************************************************)

\* pi, single precision
M_PI_F == 314

\* standard gravity [m/s^2]
CONSTANTS_ONE_G == 981

\* the airspeed below which evaluate() gives up [m/s]
MIN_AIRSPEED == 100

\* minimum effective radius [m]
MIN_RADIUS == 50

\* the smallest positive number the guidance law tells from zero
EPSILON == 1

\* multiplier of the period lower bound
PERIOD_SAFETY_FACTOR == 400

\* cross wind angle cut-off below which the feasibility barriers are linear
CROSS_WIND_ANG_CO == 2

ONE_DIV_SIN_CROSS_WIND_ANG_CO == 5000

CO_SLOPE == 250000

\* metres on the ground per unit of the geodetic grid (1e-5 deg of latitude)
METERS_PER_GRID_UNIT == 111

(***************************************************************************)
(* sqrtf, sinf, cosf, atanf                                                *)
(***************************************************************************)

\* sqrtf of a fixed-point value
FSqrt(a) == IF IsFinite(a) THEN WSqrt(a * SCALE) ELSE WSqrt(a)

\* sin on [0, pi] (Bhaskara's rational approximation, exact at 0, pi/2 and pi)
SinHalfTurn(x) ==
    LET p == x * (M_PI_F - x)
    IN  RDiv(16 * p * SCALE, 5 * M_PI_F * M_PI_F - 4 * p)

\* sinf
Sin(x) ==
    IF ~IsFinite(x) THEN NaN
    ELSE LET r == x % (2 * M_PI_F)
         IN  IF r <= M_PI_F THEN SinHalfTurn(r) ELSE 0 - SinHalfTurn(r - M_PI_F)

\* cosf
Cos(x) == IF ~IsFinite(x) THEN NaN ELSE Sin(x + M_PI_F \div 2)

\* atan on [0, 1]
AtanUnit(x) == FMul(x, M_PI_F \div 4 + FMul(27, SCALE - x))

\* atanf: odd, monotone, +-pi/2 at +-Inf, NaN at NaN
Atan(x) ==
    IF IsNaN(x) THEN NaN
    ELSE IF IsInf(x) THEN SignInt(x) * (M_PI_F \div 2)
    ELSE LET a == AbsInt(x)
         IN  SignInt(x) * (IF a <= SCALE THEN AtanUnit(a)
                           ELSE M_PI_F \div 2 - AtanUnit(FDiv(SCALE, a)))

(***************************************************************************)
(* The controller state: the tunable configuration ...                     *)
(***************************************************************************)
VARIABLES
    period_, damping_, roll_time_const_, airspeed_nom_, airspeed_max_,
    en_period_lb_, en_period_ub_, ramp_in_adapted_period_,
    en_track_keeping_, min_gsp_track_keeping_max_, inv_nte_fraction_,
    en_min_ground_speed_, min_gsp_cmd_, en_wind_excess_regulation_,
    wind_ratio_buffer_, roll_lim_rad_, roll_slew_rate_, dt_

(***************************************************************************)
(* ... and the state derived at each tick, kept until the next one         *)
(***************************************************************************)
VARIABLES
    adapted_period_, p_gain_, time_const_, track_error_bound_, bearing_vec_,
    feas_, feas_on_track_, min_ground_speed_ref_, min_gsp_track_keeping_,
    air_vel_ref_, airspeed_ref_, track_proximity_, lateral_accel_ff_,
    lateral_accel_, roll_setpoint_, path_type_loiter_, unit_path_tangent_,
    signed_track_error_

(***************************************************************************)
(* The entry point called last and the values of its local variables       *)
(***************************************************************************)
VARIABLES last_call, locals

config_vars ==
    <<period_, damping_, roll_time_const_, airspeed_nom_, airspeed_max_,
      en_period_lb_, en_period_ub_, ramp_in_adapted_period_,
      en_track_keeping_, min_gsp_track_keeping_max_, inv_nte_fraction_,
      en_min_ground_speed_, min_gsp_cmd_, en_wind_excess_regulation_,
      wind_ratio_buffer_, roll_lim_rad_, roll_slew_rate_, dt_>>

eval_vars ==
    <<adapted_period_, p_gain_, time_const_, track_error_bound_, bearing_vec_,
      feas_, feas_on_track_, min_ground_speed_ref_, min_gsp_track_keeping_,
      air_vel_ref_, airspeed_ref_, track_proximity_, lateral_accel_ff_,
      lateral_accel_>>

path_vars == <<path_type_loiter_, unit_path_tangent_, signed_track_error_>>

vars == <<config_vars, eval_vars, path_vars, roll_setpoint_, last_call, locals>>

(***************************************************************************)
(* Gain scheduler                                                          *)
(***************************************************************************)

normalizedTrackError(track_error, track_error_bound) ==
    Constrain(FDiv(track_error, track_error_bound), 0, SCALE)

windFactor(wind_ratio) ==
    FMul(2 * SCALE, FSub(SCALE, FSqrt(FSub(SCALE, FMin(SCALE, wind_ratio)))))

periodUB(air_turn_rate, wind_factor, feas_on_track) ==
    IF Gt(FMul(air_turn_rate, wind_factor), EPSILON)
    THEN FDiv(FMul(FMul(4 * SCALE, M_PI_F), damping_),
              FMul(FMul(air_turn_rate, wind_factor), feas_on_track))
    ELSE Infinity

periodLB(air_turn_rate, wind_factor, feas_on_track) ==
    LET period_lb == FDiv(FMul(M_PI_F, roll_time_const_), damping_)
        period_windy_curved_damped ==
            FMul(FMul(FMul(4 * SCALE, M_PI_F), roll_time_const_), damping_)
    IN  IF Lt(FMul(air_turn_rate, wind_factor), EPSILON) \/ Lt(damping_, SCALE \div 2)
        THEN period_lb
        ELSE FAdd(FMul(period_windy_curved_damped, feas_on_track),
                  FMul(FSub(SCALE, feas_on_track), period_lb))

trackProximity(look_ahead_ang) == Square(Sin(look_ahead_ang))

trackErrorBound(ground_speed, time_const) ==
    IF Gt(ground_speed, SCALE)
    THEN FMul(ground_speed, time_const)
    ELSE FMul(FMul(SCALE \div 2, time_const),
              FAdd(FMul(ground_speed, ground_speed), SCALE))

pGain(period, damping) == FDiv(FMul(FMul(4 * SCALE, M_PI_F), damping), period)

timeConst(period, damping) == FMul(period, damping)

\* a look-ahead angle growing with the track error
lookAheadAngleGrowing(normalized_track_error) ==
    FMul(FMul(FMul(M_PI_F, SCALE \div 2), normalized_track_error), normalized_track_error)

lookAheadAngle(normalized_track_error) ==
    FMul(FMul(FMul(M_PI_F, SCALE \div 2), FSub(normalized_track_error, SCALE)),
         FSub(normalized_track_error, SCALE))

\* the track proximity adaptPeriod() recalculates for the lower bounded period
nominalTrackProximity(ground_speed, track_error, period) ==
    trackProximity(lookAheadAngle(normalizedTrackError(track_error,
        trackErrorBound(ground_speed, timeConst(period, damping_)))))

\* the transition from the lower bounded period to the adapted period
rampInAdaptedPeriod(period, period_adapted, track_proximity) ==
    IF ramp_in_adapted_period_
    THEN FAdd(FMul(period_adapted, track_proximity),
              FMul(FSub(SCALE, track_proximity), period))
    ELSE period_adapted

\* the upper bounding that prefers the upper bound over the lower bound
upperBoundPeriodPreferred(ground_speed, track_error, period_lb, period, period_ub) ==
    IF en_period_ub_ /\ IsFinite(period_ub) /\ Gt(period, period_ub)
    THEN rampInAdaptedPeriod(period, period_ub,
                             nominalTrackProximity(ground_speed, track_error, period))
    ELSE period

\* the upper bounding of the lower bounded period
upperBoundPeriod(ground_speed, track_error, period_lb, period, period_ub) ==
    IF en_period_ub_ /\ IsFinite(period_ub) /\ Gt(period, period_ub)
    THEN rampInAdaptedPeriod(period,
                             FMax(FMul(period_lb, PERIOD_SAFETY_FACTOR), period_ub),
                             nominalTrackProximity(ground_speed, track_error, period))
    ELSE period

\* the lower bounding of period_, then the upper bounding
lowerBoundPeriod(ground_speed, track_error, period_lb, period_ub) ==
    upperBoundPeriod(ground_speed, track_error, period_lb,
                     FMax(FMul(period_lb, PERIOD_SAFETY_FACTOR), period_), period_ub)

\* adaptPeriod() once air_turn_rate and wind_factor are known
adaptPeriodAtTurnRate(ground_speed, track_error, air_turn_rate, wind_factor, feas_on_track) ==
    IF en_period_lb_
    THEN lowerBoundPeriod(ground_speed, track_error,
                          periodLB(air_turn_rate, wind_factor, feas_on_track),
                          periodUB(air_turn_rate, wind_factor, feas_on_track))
    ELSE period_

adaptPeriod(ground_speed, airspeed, wind_ratio, track_error, path_curvature, wind_vel, unit_path_tangent, feas_on_track) ==
    adaptPeriodAtTurnRate(ground_speed, track_error,
                          FAbs(FMul(path_curvature, airspeed)), windFactor(wind_ratio),
                          feas_on_track)

(***************************************************************************)
(* Track-error shaper                                                      *)
(***************************************************************************)

\* bearingVec() with the look-ahead angle measured from the track error vector's side
bearingVecSwapped(unit_path_tangent, look_ahead_ang, signed_track_error) ==
    LET unit_path_normal == <<FNeg(unit_path_tangent[2]), unit_path_tangent[1]>>
        unit_track_error ==
            VScale(IF Lt(signed_track_error, 0) THEN SCALE ELSE 0 - SCALE, unit_path_normal)
    IN  VAdd(VScale(Sin(look_ahead_ang), unit_track_error),
             VScale(Cos(look_ahead_ang), unit_path_tangent))

\* bearingVec() with the track error vector pointing away from the path
bearingVecAwayFromPath(unit_path_tangent, look_ahead_ang, signed_track_error) ==
    LET unit_path_normal == <<FNeg(unit_path_tangent[2]), unit_path_tangent[1]>>
        unit_track_error ==
            VScale(IF Lt(signed_track_error, 0) THEN 0 - SCALE ELSE SCALE, unit_path_normal)
    IN  VAdd(VScale(Cos(look_ahead_ang), unit_track_error),
             VScale(Sin(look_ahead_ang), unit_path_tangent))

bearingVec(unit_path_tangent, look_ahead_ang, signed_track_error) ==
    LET cos_look_ahead_ang == Cos(look_ahead_ang)
        sin_look_ahead_ang == Sin(look_ahead_ang)
        unit_path_normal == <<FNeg(unit_path_tangent[2]), unit_path_tangent[1]>>
        unit_track_error ==
            VScale(IF Lt(signed_track_error, 0) THEN SCALE ELSE 0 - SCALE, unit_path_normal)
    IN  VAdd(VScale(cos_look_ahead_ang, unit_track_error),
             VScale(sin_look_ahead_ang, unit_path_tangent))

\* the track keeping demand minGroundSpeed() leaves in min_gsp_track_keeping_
minGspTrackKeeping(normalized_track_error, feas) ==
    IF en_track_keeping_ /\ en_wind_excess_regulation_
    THEN FMul(FMul(FSub(SCALE, feas), min_gsp_track_keeping_max_),
              Constrain(FMul(normalized_track_error, inv_nte_fraction_), 0, SCALE))
    ELSE 0

minGroundSpeed(normalized_track_error, feas) ==
    LET min_gsp_cmd == IF en_min_ground_speed_ /\ en_wind_excess_regulation_
                       THEN min_gsp_cmd_ ELSE 0
    IN  FMax(minGspTrackKeeping(normalized_track_error, feas), min_gsp_cmd)

(***************************************************************************)
(* Bearing feasibility model                                               *)
(***************************************************************************)

bearingIsFeasible(wind_cross_bearing, wind_dot_bearing, airspeed, wind_speed) ==
    Lt(FAbs(wind_cross_bearing), airspeed)
        /\ (Gt(wind_dot_bearing, 0) \/ Lt(wind_speed, airspeed))

\* sin_cross_wind_ang of bearingFeasibility()
sinCrossWindAng(wind_cross_bearing, wind_dot_bearing, wind_speed) ==
    IF Le(wind_dot_bearing, 0) THEN SCALE
    ELSE FAbs(FDiv(wind_cross_bearing, wind_speed))

\* the upper feasibility barrier
windRatioUB(sin_cross_wind_ang) ==
    IF Lt(sin_cross_wind_ang, CROSS_WIND_ANG_CO)
    THEN FAdd(ONE_DIV_SIN_CROSS_WIND_ANG_CO,
              FMul(CO_SLOPE, FSub(CROSS_WIND_ANG_CO, sin_cross_wind_ang)))
    ELSE FDiv(SCALE, sin_cross_wind_ang)

\* the lower feasibility barrier
windRatioLB(sin_cross_wind_ang) ==
    IF Lt(sin_cross_wind_ang, CROSS_WIND_ANG_CO)
    THEN FAdd(FAdd(FMul(FSub(ONE_DIV_SIN_CROSS_WIND_ANG_CO, 2 * SCALE),
                        wind_ratio_buffer_), SCALE),
              FMul(FMul(wind_ratio_buffer_, CO_SLOPE),
                   FSub(CROSS_WIND_ANG_CO, sin_cross_wind_ang)))
    ELSE FAdd(FMul(FSub(FDiv(SCALE, sin_cross_wind_ang), 2 * SCALE),
                   wind_ratio_buffer_), SCALE)

\* the feasibility between the two barriers
feasibilityTransition(wind_ratio, wind_ratio_ub, wind_ratio_lb) ==
    IF Gt(wind_ratio, wind_ratio_ub) THEN 0
    ELSE IF Gt(wind_ratio, wind_ratio_lb)
    THEN Square(Cos(FMul(FMul(M_PI_F, SCALE \div 2),
                         Constrain(FDiv(FSub(wind_ratio, wind_ratio_lb),
                                        FSub(wind_ratio_ub, wind_ratio_lb)), 0, SCALE))))
    ELSE SCALE

\* bearingFeasibility() once sin_cross_wind_ang is known
feasibilityAtCrossWindAng(wind_ratio, sin_cross_wind_ang) ==
    feasibilityTransition(wind_ratio, windRatioUB(sin_cross_wind_ang),
                          windRatioLB(sin_cross_wind_ang))

bearingFeasibility(wind_cross_bearing, wind_dot_bearing, wind_speed, wind_ratio) ==
    feasibilityAtCrossWindAng(wind_ratio,
        sinCrossWindAng(wind_cross_bearing, wind_dot_bearing, wind_speed))

(***************************************************************************)
(* Wind-triangle solver                                                    *)
(***************************************************************************)

projectAirspOnBearing(airspeed, wind_cross_bearing) ==
    SqrtDiffSq(airspeed, wind_cross_bearing)

\* solveWindTriangle() turning the other way round
solveWindTriangleMirrored(wind_cross_bearing, airsp_dot_bearing, bearing_vec) ==
    <<FAdd(FMul(airsp_dot_bearing, bearing_vec[1]), FMul(wind_cross_bearing, bearing_vec[2])),
      FSub(FMul(airsp_dot_bearing, bearing_vec[2]), FMul(wind_cross_bearing, bearing_vec[1]))>>

solveWindTriangle(wind_cross_bearing, airsp_dot_bearing, bearing_vec) ==
    <<FSub(FMul(airsp_dot_bearing, bearing_vec[1]), FMul(wind_cross_bearing, bearing_vec[2])),
      FAdd(FMul(wind_cross_bearing, bearing_vec[1]), FMul(airsp_dot_bearing, bearing_vec[2]))>>

\* the vector infeasibleAirVelRef() normalizes
infeasibleAirVelRefDirection(wind_vel, bearing_vec, wind_speed, airspeed) ==
    VSub(VScale(SqrtDiffSq(wind_speed, airspeed), bearing_vec), wind_vel)

infeasibleAirVelRef(wind_vel, bearing_vec, wind_speed, airspeed) ==
    VScale(airspeed,
           Normalized(infeasibleAirVelRefDirection(wind_vel, bearing_vec, wind_speed, airspeed)))

\* airspeed required to achieve the minimum ground speed along the bearing vector
airspeedMin(wind_cross_bearing, wind_dot_bearing, min_ground_speed) ==
    SqrtSumSq(FSub(min_ground_speed, wind_dot_bearing), wind_cross_bearing)

\* the branch refAirVelocity() takes, airspeed_min being known
refAirVelocityRegime(wind_cross_bearing, wind_dot_bearing, wind_speed, min_ground_speed, airspeed_min) ==
    IF Gt(min_ground_speed, wind_dot_bearing)
          /\ (en_min_ground_speed_ \/ en_track_keeping_)
          /\ en_wind_excess_regulation_
    THEN IF Gt(airspeed_min, airspeed_max_)
         THEN IF bearingIsFeasible(wind_cross_bearing, wind_dot_bearing,
                                   airspeed_max_, wind_speed)
              THEN "min_gsp_max_feasible"
              ELSE "min_gsp_infeasible"
         ELSE IF Gt(airspeed_min, airspeed_nom_)
              THEN "min_gsp_in_range"
              ELSE "min_gsp_nominal"
    ELSE IF bearingIsFeasible(wind_cross_bearing, wind_dot_bearing,
                              airspeed_nom_, wind_speed)
         THEN "nominal_feasible"
         ELSE IF bearingIsFeasible(wind_cross_bearing, wind_dot_bearing,
                                   airspeed_max_, wind_speed)
                    /\ en_wind_excess_regulation_
              THEN IF Le(wind_dot_bearing, 0)
                   THEN "max_feasible_opposing"
                   ELSE "max_feasible_minimal"
              ELSE "infeasible"

\* the airspeed refAirVelocity() hands to infeasibleAirVelRef() in a regime that calls it
infeasibleAirspeedInput(regime) ==
    IF regime = "min_gsp_infeasible" THEN airspeed_max_
    ELSE IF en_wind_excess_regulation_ THEN airspeed_max_ ELSE airspeed_nom_

\* refAirVelocity() solving the minimum ground speed branches at the nominal airspeed
refAirVelocityInRegimeNominal(regime, wind_vel, bearing_vec, wind_cross_bearing, wind_speed, airspeed_min) ==
    CASE regime = "min_gsp_max_feasible" ->
             solveWindTriangle(wind_cross_bearing,
                 projectAirspOnBearing(airspeed_max_, wind_cross_bearing), bearing_vec)
      [] regime \in {"min_gsp_in_range", "min_gsp_nominal", "nominal_feasible"} ->
             solveWindTriangle(wind_cross_bearing,
                 projectAirspOnBearing(airspeed_nom_, wind_cross_bearing), bearing_vec)
      [] regime = "max_feasible_opposing" -> wind_vel
      [] regime = "max_feasible_minimal" ->
             solveWindTriangle(wind_cross_bearing, 0, bearing_vec)
      [] OTHER ->
             infeasibleAirVelRef(wind_vel, bearing_vec, wind_speed,
                                 infeasibleAirspeedInput(regime))

\* the air velocity reference of each branch of refAirVelocity()
refAirVelocityInRegime(regime, wind_vel, bearing_vec, wind_cross_bearing, wind_speed, airspeed_min) ==
    CASE regime = "min_gsp_max_feasible" ->
             solveWindTriangle(wind_cross_bearing,
                 projectAirspOnBearing(airspeed_max_, wind_cross_bearing), bearing_vec)
      [] regime = "min_gsp_in_range" ->
             solveWindTriangle(wind_cross_bearing,
                 projectAirspOnBearing(airspeed_min, wind_cross_bearing), bearing_vec)
      [] regime \in {"min_gsp_nominal", "nominal_feasible"} ->
             solveWindTriangle(wind_cross_bearing,
                 projectAirspOnBearing(airspeed_nom_, wind_cross_bearing), bearing_vec)
      [] regime = "max_feasible_opposing" -> wind_vel
      [] regime = "max_feasible_minimal" ->
             solveWindTriangle(wind_cross_bearing, 0, bearing_vec)
      [] OTHER ->
             infeasibleAirVelRef(wind_vel, bearing_vec, wind_speed,
                                 infeasibleAirspeedInput(regime))

\* refAirVelocity() once airspeed_min is known
refAirVelocityAtAirspeedMin(wind_vel, bearing_vec, wind_cross_bearing, wind_dot_bearing, wind_speed, min_ground_speed, airspeed_min) ==
    refAirVelocityInRegime(
        refAirVelocityRegime(wind_cross_bearing, wind_dot_bearing, wind_speed,
                             min_ground_speed, airspeed_min),
        wind_vel, bearing_vec, wind_cross_bearing, wind_speed, airspeed_min)

refAirVelocity(wind_vel, bearing_vec, wind_cross_bearing, wind_dot_bearing, wind_speed, min_ground_speed) ==
    refAirVelocityAtAirspeedMin(wind_vel, bearing_vec, wind_cross_bearing,
        wind_dot_bearing, wind_speed, min_ground_speed,
        airspeedMin(wind_cross_bearing, wind_dot_bearing, min_ground_speed))

(***************************************************************************)
(* Acceleration / roll mapper                                              *)
(***************************************************************************)

\* the denominator of the path frame curvature in lateralAccelFF()
pathFrameCurvatureDenom(path_curvature, signed_track_error) ==
    FMax(FSub(SCALE, FMul(path_curvature, signed_track_error)),
         FMul(path_curvature, MIN_RADIUS))

lateralAccelFF(unit_path_tangent, ground_vel, wind_dot_upt, wind_cross_upt, airspeed, wind_speed, wind_ratio, signed_track_error, path_curvature, track_proximity, feas) ==
    LET path_frame_curvature ==
            FDiv(path_curvature, pathFrameCurvatureDenom(path_curvature, signed_track_error))
        tangent_ground_speed == FMax(Dot(ground_vel, unit_path_tangent), 0)
        path_frame_rate == FMul(path_frame_curvature, tangent_ground_speed)
        speed_ratio ==
            FAdd(SCALE, FDiv(wind_dot_upt,
                             FMax(projectAirspOnBearing(airspeed, wind_cross_upt), EPSILON)))
    IN  FMul(FMul(FMul(FMul(airspeed, track_proximity), feas), speed_ratio), path_frame_rate)

\* p_gain and airspeed_ref are the members p_gain_ and airspeed_ref_ as evaluate() has
\* just set them
lateralAccel(air_vel, air_vel_ref, airspeed, p_gain, airspeed_ref) ==
    LET dot_air_vel_err == Dot(air_vel, air_vel_ref)
        cross_air_vel_err == cross2D(air_vel, air_vel_ref)
    IN  IF Lt(dot_air_vel_err, 0)
        THEN FMul(p_gain, IF Lt(cross_air_vel_err, 0)
                          THEN FNeg(FMul(airspeed, airspeed))
                          ELSE FMul(airspeed, airspeed))
        ELSE FDiv(FMul(FMul(p_gain, cross_air_vel_err), airspeed), airspeed_ref)

\* roll_new before slew rate limiting
rollCandidate(lateral_accel) ==
    Constrain(Atan(FDiv(FMul(lateral_accel, SCALE), CONSTANTS_ONE_G)),
              FNeg(roll_lim_rad_), roll_lim_rad_)

\* updateRollSetpoint() without the slew rate limit
slewLimitedRollNotLimited(roll_new, roll_setpoint) == roll_new

\* the slew rate limit always taking its full step toward roll_new
slewLimitedRollFullStep(roll_new, roll_setpoint) ==
    IF Gt(dt_, 0) /\ Gt(roll_slew_rate_, 0)
    THEN IF Lt(roll_new, roll_setpoint)
         THEN FSub(roll_setpoint, FMul(roll_slew_rate_, dt_))
         ELSE IF Gt(roll_new, roll_setpoint)
              THEN FAdd(roll_setpoint, FMul(roll_slew_rate_, dt_))
              ELSE roll_new
    ELSE roll_new

\* updateRollSetpoint() without the ISFINITE guard
finiteRollOrKeptUnguarded(roll_new, roll_setpoint) == roll_new

\* roll_new after slew rate limiting
slewLimitedRoll(roll_new, roll_setpoint) ==
    IF Gt(dt_, 0) /\ Gt(roll_slew_rate_, 0)
    THEN Constrain(roll_new,
                   FSub(roll_setpoint, FMul(roll_slew_rate_, dt_)),
                   FAdd(roll_setpoint, FMul(roll_slew_rate_, dt_)))
    ELSE roll_new

\* the assignment of roll_new to roll_setpoint_, guarded by ISFINITE
finiteRollOrKept(roll_new, roll_setpoint) ==
    IF IsFinite(roll_new) THEN roll_new ELSE roll_setpoint

\* the value updateRollSetpoint() leaves in roll_setpoint_
updateRollSetpoint(lateral_accel, roll_setpoint) ==
    finiteRollOrKept(slewLimitedRoll(rollCandidate(lateral_accel), roll_setpoint),
                     roll_setpoint)

(***************************************************************************)
(* evaluate()                                                              *)
(***************************************************************************)

\* the return below MIN_AIRSPEED, forgetting to reset the feasibility
evaluateNoAirspeedFeasKept ==
    /\ airspeed_ref_' = airspeed_nom_
    /\ lateral_accel_' = 0
    /\ UNCHANGED <<adapted_period_, p_gain_, time_const_, track_error_bound_, bearing_vec_,
                   feas_, feas_on_track_, min_ground_speed_ref_, min_gsp_track_keeping_,
                   air_vel_ref_, track_proximity_, lateral_accel_ff_>>

\* the return when the airspeed is below MIN_AIRSPEED
evaluateNoAirspeed ==
    /\ airspeed_ref_' = airspeed_nom_
    /\ lateral_accel_' = 0
    /\ feas_' = 0
    /\ UNCHANGED <<adapted_period_, p_gain_, time_const_, track_error_bound_, bearing_vec_,
                   feas_on_track_, min_ground_speed_ref_, min_gsp_track_keeping_,
                   air_vel_ref_, track_proximity_, lateral_accel_ff_>>

\* evaluate() past the airspeed check, from the bearing vector on
evaluateOnBearing(ground_vel, wind_vel, unit_path_tangent, signed_track_error, path_curvature, air_vel, airspeed, wind_speed, wind_ratio, wind_cross_upt, wind_dot_upt, normalized_track_error, look_ahead_ang) ==
    \E wind_cross_bearing \in {cross2D(wind_vel, bearing_vec_')},
       wind_dot_bearing \in {Dot(wind_vel, bearing_vec_')} :
        /\ feas_' = bearingFeasibility(wind_cross_bearing, wind_dot_bearing, wind_speed,
                                       wind_ratio)
        /\ \E feas_combined \in {FMul(feas_', feas_on_track_')} :
            /\ min_gsp_track_keeping_' =
                   minGspTrackKeeping(normalized_track_error, feas_combined)
            /\ min_ground_speed_ref_' = minGroundSpeed(normalized_track_error, feas_combined)
            /\ air_vel_ref_' = refAirVelocity(wind_vel, bearing_vec_', wind_cross_bearing,
                                              wind_dot_bearing, wind_speed,
                                              min_ground_speed_ref_')
            /\ airspeed_ref_' = Norm(air_vel_ref_')
            /\ track_proximity_' = trackProximity(look_ahead_ang)
            /\ lateral_accel_ff_' =
                   lateralAccelFF(unit_path_tangent, ground_vel, wind_dot_upt,
                                  wind_cross_upt, airspeed, wind_speed, wind_ratio,
                                  signed_track_error, path_curvature, track_proximity_',
                                  feas_combined)
            /\ lateral_accel_' =
                   FAdd(lateralAccel(air_vel, air_vel_ref_', airspeed, p_gain_',
                                     airspeed_ref_'),
                        lateral_accel_ff_')

\* evaluate() past the airspeed check
evaluateAirborne(ground_vel, wind_vel, unit_path_tangent, signed_track_error, path_curvature, ground_speed, air_vel, airspeed) ==
    \E wind_speed \in {Norm(wind_vel)}, track_error \in {FAbs(signed_track_error)},
       wind_cross_upt \in {cross2D(wind_vel, unit_path_tangent)},
       wind_dot_upt \in {Dot(wind_vel, unit_path_tangent)} :
      \E wind_ratio \in {FDiv(wind_speed, airspeed)} :
        /\ feas_on_track_' = bearingFeasibility(wind_cross_upt, wind_dot_upt, wind_speed,
                                                wind_ratio)
        /\ adapted_period_' = adaptPeriod(ground_speed, airspeed, wind_ratio, track_error,
                                          path_curvature, wind_vel, unit_path_tangent,
                                          feas_on_track_')
        /\ p_gain_' = pGain(adapted_period_', damping_)
        /\ time_const_' = timeConst(adapted_period_', damping_)
        /\ track_error_bound_' = trackErrorBound(ground_speed, time_const_')
        /\ \E normalized_track_error \in
                  {normalizedTrackError(track_error, track_error_bound_')} :
             \E look_ahead_ang \in {lookAheadAngle(normalized_track_error)} :
               /\ bearing_vec_' = bearingVec(unit_path_tangent, look_ahead_ang,
                                             signed_track_error)
               /\ evaluateOnBearing(ground_vel, wind_vel, unit_path_tangent,
                                    signed_track_error, path_curvature, air_vel, airspeed,
                                    wind_speed, wind_ratio, wind_cross_upt, wind_dot_upt,
                                    normalized_track_error, look_ahead_ang)

evaluate(ground_vel, wind_vel, unit_path_tangent, signed_track_error, path_curvature) ==
    \E ground_speed \in {Norm(ground_vel)}, air_vel \in {VSub(ground_vel, wind_vel)} :
      \E airspeed \in {Norm(air_vel)} :
        IF Lt(airspeed, MIN_AIRSPEED)
        THEN evaluateNoAirspeed
        ELSE evaluateAirborne(ground_vel, wind_vel, unit_path_tangent, signed_track_error,
                              path_curvature, ground_speed, air_vel, airspeed)

(***************************************************************************)
(* Geodetic positions: pairs <<latitude, longitude>> on a grid of 1e-5 deg *)
(***************************************************************************)

\* math::radians of a number of grid units
GridRadians(u) == RDiv(u * M_PI_F, 180 * 100000)

getLocalPlanarVector(origin, target) ==
    LET x_origin_cos == Cos(GridRadians(origin[1]))
    IN  <<(target[1] - origin[1]) * METERS_PER_GRID_UNIT,
          FMul((target[2] - origin[2]) * METERS_PER_GRID_UNIT, x_origin_cos)>>

(***************************************************************************)
(* The controller after construction                                       *)
(***************************************************************************)

\* the gain scheduler's configuration
InitPeriodConfig ==
    /\ period_ = 10 * SCALE
    /\ damping_ = 70
    /\ roll_time_const_ = 50
    /\ en_period_lb_ = TRUE
    /\ en_period_ub_ = TRUE
    /\ ramp_in_adapted_period_ = TRUE

\* the airspeed reference's configuration
InitAirspeedConfig ==
    /\ airspeed_nom_ = 10 * SCALE
    /\ airspeed_max_ = 15 * SCALE
    /\ en_track_keeping_ = FALSE
    /\ min_gsp_track_keeping_max_ = 5 * SCALE
    /\ inv_nte_fraction_ = 2 * SCALE
    /\ en_min_ground_speed_ = FALSE
    /\ min_gsp_cmd_ = 0
    /\ en_wind_excess_regulation_ = TRUE
    /\ wind_ratio_buffer_ = 10

\* the roll setpoint's configuration
InitRollConfig ==
    /\ roll_lim_rad_ = 60
    /\ roll_slew_rate_ = 0
    /\ dt_ = 0

InitConfig == InitPeriodConfig /\ InitAirspeedConfig /\ InitRollConfig

InitState ==
    /\ adapted_period_ = 10 * SCALE
    /\ p_gain_ = pGain(10 * SCALE, 70)
    /\ time_const_ = timeConst(10 * SCALE, 70)
    /\ track_error_bound_ = 135 * SCALE
    /\ bearing_vec_ = <<SCALE, 0>>
    /\ feas_ = SCALE
    /\ feas_on_track_ = SCALE
    /\ min_ground_speed_ref_ = 0
    /\ min_gsp_track_keeping_ = 0
    /\ air_vel_ref_ = <<10 * SCALE, 0>>
    /\ airspeed_ref_ = 10 * SCALE
    /\ track_proximity_ = 0
    /\ lateral_accel_ff_ = 0
    /\ lateral_accel_ = 0
    /\ roll_setpoint_ = 0
    /\ path_type_loiter_ = FALSE
    /\ unit_path_tangent_ = <<SCALE, 0>>
    /\ signed_track_error_ = 0

\* the local variables of a tick: the velocities and the airspeed of the call, the
\* vector the entry point normalized, the vector from the path's reference point (A, or
\* the loiter centre) to the vehicle, the path curvature, whether evaluate() was called,
\* and roll_new as updateRollSetpoint() clamped it, before slew rate limiting
Locals(ground_vel, wind_vel, normalized_arg, vector_to_vehicle, path_curvature, evaluated, roll_new) ==
    [ground_vel |-> ground_vel, wind_vel |-> wind_vel,
     airspeed |-> Norm(VSub(ground_vel, wind_vel)),
     normalized_arg |-> normalized_arg,
     vector_to_vehicle |-> vector_to_vehicle,
     path_curvature |-> path_curvature,
     evaluated |-> evaluated,
     roll_new |-> roll_new]

Init ==
    /\ InitConfig
    /\ InitState
    /\ last_call = "constructor"
    /\ locals = Locals(<<0, 0>>, <<0, 0>>, <<SCALE, 0>>, <<0, 0>>, 0, FALSE, 0)

(***************************************************************************)
(* The navigation entry points                                             *)
(***************************************************************************)

\* the fallback of navigateWaypoints(): fly directly to A
flyDirectlyToA(vector_A_to_B, vector_A_to_vehicle) ==
    Lt(Norm(vector_A_to_B), EPSILON) \/ Lt(Dot(vector_A_to_B, vector_A_to_vehicle), 0)

\* updateRollSetpoint(), called at the end of every entry point
rollSetpointUpdated ==
    roll_setpoint_' = updateRollSetpoint(lateral_accel_', roll_setpoint_)

\* the ending the entry points share once the path tangent, the track error and the
\* curvature are known: they are stored, evaluate() and updateRollSetpoint() are called
followPath(entry_point, ground_vel, wind_vel, unit_path_tangent, signed_track_error, path_curvature, normalized_arg, vector_to_vehicle) ==
    /\ unit_path_tangent_' = unit_path_tangent
    /\ signed_track_error_' = signed_track_error
    /\ evaluate(ground_vel, wind_vel, unit_path_tangent, signed_track_error, path_curvature)
    /\ rollSetpointUpdated
    /\ last_call' = entry_point
    /\ locals' = Locals(ground_vel, wind_vel, normalized_arg, vector_to_vehicle,
                        path_curvature, TRUE,
                        rollCandidate(lateral_accel_'))
    /\ UNCHANGED config_vars

navigateWaypoints(waypoint_A, waypoint_B, vehicle_pos, ground_vel, wind_vel) ==
    \E vector_A_to_B \in {getLocalPlanarVector(waypoint_A, waypoint_B)},
       vector_A_to_vehicle \in {getLocalPlanarVector(waypoint_A, vehicle_pos)} :
        /\ path_type_loiter_' = FALSE
        /\ IF flyDirectlyToA(vector_A_to_B, vector_A_to_vehicle)
           THEN followPath("navigateWaypoints", ground_vel, wind_vel,
                           VNeg(Normalized(vector_A_to_vehicle)), 0, 0,
                           vector_A_to_vehicle, vector_A_to_vehicle)
           ELSE \E unit_path_tangent \in {Normalized(vector_A_to_B)} :
                    followPath("navigateWaypoints", ground_vel, wind_vel,
                               unit_path_tangent,
                               cross2D(unit_path_tangent, vector_A_to_vehicle), 0,
                               vector_A_to_B, vector_A_to_vehicle)

\* the vector navigateLoiter() normalizes to find the closest point on the circle
loiterRadialVector(vector_center_to_vehicle, dist_to_center, ground_vel) ==
    IF Lt(dist_to_center, SCALE \div 10)
    THEN IF Lt(Norm(ground_vel), SCALE \div 10) THEN <<SCALE, 0>> ELSE ground_vel
    ELSE vector_center_to_vehicle

navigateLoiter(loiter_center, vehicle_pos, radius_in, loiter_direction, ground_vel, wind_vel) ==
    \E radius \in {FMax(radius_in, MIN_RADIUS)},
       vector_center_to_vehicle \in {getLocalPlanarVector(loiter_center, vehicle_pos)} :
      \E dist_to_center \in {Norm(vector_center_to_vehicle)} :
        \E radial \in {loiterRadialVector(vector_center_to_vehicle, dist_to_center,
                                          ground_vel)} :
          \E unit_vec_center_to_closest_pt \in {Normalized(radial)} :
            /\ path_type_loiter_' = TRUE
            /\ followPath("navigateLoiter", ground_vel, wind_vel,
                          VScale(loiter_direction * SCALE,
                                 <<FNeg(unit_vec_center_to_closest_pt[2]),
                                   unit_vec_center_to_closest_pt[1]>>),
                          FMul(0 - loiter_direction * SCALE, FSub(dist_to_center, radius)),
                          FDiv(loiter_direction * SCALE, radius),
                          radial, vector_center_to_vehicle)

navigateHeading(heading_ref, ground_vel, wind_vel) ==
    \E air_vel \in {VSub(ground_vel, wind_vel)},
       unit_path_tangent \in {<<Cos(heading_ref), Sin(heading_ref)>>} :
        /\ path_type_loiter_' = FALSE
        /\ unit_path_tangent_' = unit_path_tangent
        /\ signed_track_error_' = 0
        /\ evaluate(air_vel, <<0, 0>>, unit_path_tangent, 0, 0)
        /\ rollSetpointUpdated
        /\ last_call' = "navigateHeading"
        /\ locals' = Locals(ground_vel, wind_vel, unit_path_tangent, <<0, 0>>, 0, TRUE,
                            rollCandidate(lateral_accel_'))
        /\ UNCHANGED config_vars

navigateBearing(bearing, ground_vel, wind_vel) ==
    \E unit_path_tangent \in {<<Cos(bearing), Sin(bearing)>>} :
        /\ path_type_loiter_' = FALSE
        /\ followPath("navigateBearing", ground_vel, wind_vel, unit_path_tangent, 0, 0,
                      unit_path_tangent, <<0, 0>>)

navigateLevelFlight(heading) ==
    /\ path_type_loiter_' = FALSE
    /\ airspeed_ref_' = airspeed_nom_
    /\ lateral_accel_' = 0
    /\ feas_' = SCALE
    /\ bearing_vec_' = <<Cos(heading), Sin(heading)>>
    /\ unit_path_tangent_' = bearing_vec_'
    /\ signed_track_error_' = 0
    /\ rollSetpointUpdated
    /\ last_call' = "navigateLevelFlight"
    /\ locals' = Locals(<<0, 0>>, <<0, 0>>, bearing_vec_', <<0, 0>>, 0, FALSE,
                        rollCandidate(lateral_accel_'))
    /\ UNCHANGED <<config_vars, adapted_period_, p_gain_, time_const_, track_error_bound_,
                   feas_on_track_, min_ground_speed_ref_, min_gsp_track_keeping_,
                   air_vel_ref_, track_proximity_, lateral_accel_ff_>>

(***************************************************************************)
(* The setters the caller tunes the controller with between ticks          *)
(***************************************************************************)

unchanged_config_but_roll ==
    <<period_, damping_, roll_time_const_, airspeed_nom_, airspeed_max_,
      en_period_lb_, en_period_ub_, ramp_in_adapted_period_,
      en_track_keeping_, min_gsp_track_keeping_max_, inv_nte_fraction_,
      en_min_ground_speed_, min_gsp_cmd_, en_wind_excess_regulation_,
      wind_ratio_buffer_>>

setRollLimit(roll_lim_rad) ==
    /\ roll_lim_rad_' = roll_lim_rad
    /\ last_call' = "setRollLimit"
    /\ UNCHANGED <<unchanged_config_but_roll, roll_slew_rate_, dt_, eval_vars, path_vars,
                   roll_setpoint_, locals>>

setRollSlewRate(roll_slew_rate) ==
    /\ roll_slew_rate_' = roll_slew_rate
    /\ last_call' = "setRollSlewRate"
    /\ UNCHANGED <<unchanged_config_but_roll, roll_lim_rad_, dt_, eval_vars, path_vars,
                   roll_setpoint_, locals>>

setDt(dt) ==
    /\ dt_' = dt
    /\ last_call' = "setDt"
    /\ UNCHANGED <<unchanged_config_but_roll, roll_lim_rad_, roll_slew_rate_, eval_vars,
                   path_vars, roll_setpoint_, locals>>

(***************************************************************************)
(* The controller in flight: every tick the caller tunes the roll limit,   *)
(* the slew rate and dt_ as it likes and calls one navigation entry point. *)
(* The vehicle flies north at CruiseSpeed in calm air.                     *)
(***************************************************************************)

CruiseSpeed == 12 * SCALE

\* the roll limits [rad], the slew rates [rad/s] and the tick durations [s] the caller sets
RollLimits == {30, 60}

RollSlewRates == {0, 150}

TickDurations == {0, 10}

\* waypoint A and the loiter centre; waypoint B, on A or 100 m north of it; the
\* vehicle, on A or 50 m north and 50 m east of it
WaypointsA == {<<0, 0>>}

WaypointsB == {<<0, 0>>, <<90, 0>>}

VehiclePositions == {<<0, 0>>, <<45, 45>>}

\* headings and bearings [rad]: the quarter turns from north up to MaxQuarterTurns
MaxQuarterTurns == 1

Headings == {RDiv(k * M_PI_F, 2) : k \in 0..MaxQuarterTurns}

TickWaypoints ==
    \E waypoint_A \in WaypointsA, waypoint_B \in WaypointsB, vehicle_pos \in VehiclePositions :
        navigateWaypoints(waypoint_A, waypoint_B, vehicle_pos, <<CruiseSpeed, 0>>, <<0, 0>>)

TickLoiter ==
    \E loiter_center \in WaypointsA, loiter_direction \in {0 - 1, 1} :
        navigateLoiter(loiter_center, <<45, 45>>, 50 * SCALE, loiter_direction,
                       <<CruiseSpeed, 0>>, <<0, 0>>)

TickHeading ==
    \E heading_ref \in Headings : navigateHeading(heading_ref, <<CruiseSpeed, 0>>, <<0, 0>>)

TickBearing ==
    \E bearing \in Headings : navigateBearing(bearing, <<CruiseSpeed, 0>>, <<0, 0>>)

TickLevelFlight == \E heading \in Headings : navigateLevelFlight(heading)

TuneRollLimit == \E roll_lim_rad \in RollLimits : setRollLimit(roll_lim_rad)

TuneRollSlewRate == \E roll_slew_rate \in RollSlewRates : setRollSlewRate(roll_slew_rate)

TuneDt == \E dt \in TickDurations : setDt(dt)

Next ==
    \/ TickWaypoints
    \/ TickLoiter
    \/ TickHeading
    \/ TickBearing
    \/ TickLevelFlight
    \/ TuneRollLimit
    \/ TuneRollSlewRate
    \/ TuneDt

Spec == Init /\ [][Next]_vars

(***************************************************************************)
(* evaluate() in wind: the entry points that call it, on a line from A   *)
(* northwards, on a 50 m circle, on a heading and on a bearing, in an      *)
(* easterly wind; the vehicle drifts with the wind, creeps north through   *)
(* the air at half MIN_AIRSPEED, or flies north over ground at CruiseSpeed *)
(***************************************************************************)

\* the wind speeds: multiples of WindStep up to MaxWindSteps
MaxWindSteps == 1

WindStep == 6 * SCALE

Winds == {<<0, k * WindStep>> : k \in 0..MaxWindSteps}

GroundVelsInWind(wind_vel) ==
    {wind_vel, <<MIN_AIRSPEED \div 2, wind_vel[2]>>, <<CruiseSpeed, 0>>}

EvaluateWaypoints ==
    \E vehicle_pos \in VehiclePositions, wind_vel \in Winds :
        \E ground_vel \in GroundVelsInWind(wind_vel) :
            navigateWaypoints(<<0, 0>>, <<90, 0>>, vehicle_pos, ground_vel, wind_vel)

EvaluateLoiter ==
    \E loiter_direction \in {0 - 1, 1}, wind_vel \in Winds :
        \E ground_vel \in GroundVelsInWind(wind_vel) :
            navigateLoiter(<<0, 0>>, <<45, 45>>, 50 * SCALE, loiter_direction,
                           ground_vel, wind_vel)

EvaluateHeading ==
    \E heading_ref \in Headings, wind_vel \in Winds :
        \E ground_vel \in GroundVelsInWind(wind_vel) :
            navigateHeading(heading_ref, ground_vel, wind_vel)

EvaluateBearing ==
    \E bearing \in Headings, wind_vel \in Winds :
        \E ground_vel \in GroundVelsInWind(wind_vel) :
            navigateBearing(bearing, ground_vel, wind_vel)

NextEvaluate ==
    \/ EvaluateWaypoints
    \/ EvaluateLoiter
    \/ EvaluateHeading
    \/ EvaluateBearing

SpecEvaluate == Init /\ [][NextEvaluate]_vars

\* C4: a call of evaluate() with an airspeed below MIN_AIRSPEED ends with
\* lateral_accel_ = 0, feas_ = 0 and airspeed_ref_ = airspeed_nom_, whatever the wind,
\* the path and the fields left by earlier ticks.
C4_LowAirspeedResetsOutputs ==
    (locals.evaluated /\ Lt(locals.airspeed, MIN_AIRSPEED)) =>
        /\ lateral_accel_ = 0
        /\ feas_ = 0
        /\ airspeed_ref_ = airspeed_nom_

\* a call below MIN_AIRSPEED in wind, on a curved path, after an earlier tick flew
\* fast enough to leave a banked bearing vector and a command in the fields kept
C4_LowAirspeedInWindAfterFlight ==
    /\ locals.evaluated
    /\ Lt(locals.airspeed, MIN_AIRSPEED)
    /\ locals.wind_vel # <<0, 0>>
    /\ locals.path_curvature # 0
    /\ bearing_vec_ # <<SCALE, 0>>
    /\ lateral_accel_ff_ # 0

(***************************************************************************)
(* adaptPeriod() on its own: the gain scheduler's switches and period_ are *)
(* drawn with the arguments, the call stores the period and what it met   *)
(***************************************************************************)

\* the wind ratios: multiples of one half up to MaxWindRatioSteps
MaxWindRatioSteps == 3

AdaptPeriodInputs ==
    [ground_speed : {0, CruiseSpeed},
     airspeed : {10 * SCALE, 15 * SCALE},
     wind_ratio : {k * (SCALE \div 2) : k \in 0..MaxWindRatioSteps},
     track_error : {0, 10 * SCALE, 100 * SCALE},
     path_curvature : {0, 2, 0 - 2 * SCALE},
     feas_on_track : {0, SCALE \div 2, SCALE},
     called : {FALSE}, period_lb : {0}, period_ub : {0}, track_proximity : {0}]

InitAdaptPeriod ==
    /\ period_ \in {10 * SCALE, 30 * SCALE}
    /\ damping_ = 70
    /\ roll_time_const_ = 50
    /\ en_period_lb_ \in BOOLEAN
    /\ en_period_ub_ \in BOOLEAN
    /\ ramp_in_adapted_period_ \in BOOLEAN
    /\ InitAirspeedConfig
    /\ InitRollConfig
    /\ InitState
    /\ last_call = "constructor"
    /\ locals \in AdaptPeriodInputs

\* what adaptPeriod() meets on its way: the lower bound with its safety factor, the upper
\* bound, and the track proximity at the lower bounded period
adaptPeriodMet(in, air_turn_rate, wind_factor) ==
    [in EXCEPT !.called = TRUE,
               !.period_lb = FMul(periodLB(air_turn_rate, wind_factor, in.feas_on_track),
                                  PERIOD_SAFETY_FACTOR),
               !.period_ub = periodUB(air_turn_rate, wind_factor, in.feas_on_track),
               !.track_proximity =
                   nominalTrackProximity(in.ground_speed, in.track_error,
                       FMax(FMul(periodLB(air_turn_rate, wind_factor, in.feas_on_track),
                                 PERIOD_SAFETY_FACTOR), period_))]

CallAdaptPeriod ==
    /\ ~locals.called
    /\ adapted_period_' =
           adaptPeriod(locals.ground_speed, locals.airspeed, locals.wind_ratio,
                       locals.track_error, locals.path_curvature, <<0, 0>>, <<SCALE, 0>>,
                       locals.feas_on_track)
    /\ locals' = adaptPeriodMet(locals, FAbs(FMul(locals.path_curvature, locals.airspeed)),
                                windFactor(locals.wind_ratio))
    /\ last_call' = "adaptPeriod"
    /\ UNCHANGED <<config_vars, p_gain_, time_const_, track_error_bound_, bearing_vec_,
                   feas_, feas_on_track_, min_ground_speed_ref_, min_gsp_track_keeping_,
                   air_vel_ref_, airspeed_ref_, track_proximity_, lateral_accel_ff_,
                   lateral_accel_, path_vars, roll_setpoint_>>

SpecAdaptPeriod == InitAdaptPeriod /\ [][CallAdaptPeriod]_vars

\* C5: with en_period_lb_ enabled the period adaptPeriod() returns is at least
\* periodLB(...) * PERIOD_SAFETY_FACTOR, whatever en_period_ub_, ramp_in_adapted_period_,
\* the upper bound and the track proximity.
C5_PeriodAtLeastSafeLowerBound ==
    (locals.called /\ en_period_lb_) => Ge(adapted_period_, locals.period_lb)

\* the upper bound lies below the safe lower bound, period_ above it, the ramp is part
\* way in and the period returned is shorter than period_
C5_UpperBoundBelowLowerBound ==
    /\ locals.called
    /\ en_period_lb_ /\ en_period_ub_ /\ ramp_in_adapted_period_
    /\ IsFinite(locals.period_ub)
    /\ Lt(locals.period_ub, locals.period_lb)
    /\ Gt(locals.track_proximity, 0) /\ Lt(locals.track_proximity, SCALE)
    /\ Gt(period_, locals.period_lb)
    /\ Lt(adapted_period_, period_)

(***************************************************************************)
(* refAirVelocity() on its own: the wind, the bearing, the minimum ground  *)
(* speed and the switches are drawn, the call stores the reference and    *)
(* what it met                                                            *)
(***************************************************************************)

\* the wind components: multiples of WindGridStep up to MaxWindGridSteps either way
MaxWindGridSteps == 3

WindGridStep == 5 * SCALE

WindGrid ==
    {<<i * WindGridStep, j * WindGridStep>> :
        i \in (0 - MaxWindGridSteps)..MaxWindGridSteps,
        j \in (0 - MaxWindGridSteps)..MaxWindGridSteps}

\* the bearings: north, east, and 53 degrees east of north
BearingVecs == {<<SCALE, 0>>, <<0, SCALE>>, <<60, 80>>}

RefAirVelocityInputs ==
    [wind_vel : WindGrid, bearing_vec : BearingVecs,
     min_ground_speed : {0, 5 * SCALE, 12 * SCALE},
     called : {FALSE}, wind_speed : {0}, wind_cross_bearing : {0}, wind_dot_bearing : {0},
     airspeed_min : {0}, regime : {"none"}, infeasible_direction : {<<0, 0>>}]

InitRefAirVelocity ==
    /\ InitPeriodConfig
    /\ airspeed_nom_ = 10 * SCALE
    /\ airspeed_max_ = 15 * SCALE
    /\ en_track_keeping_ \in BOOLEAN
    /\ min_gsp_track_keeping_max_ = 5 * SCALE
    /\ inv_nte_fraction_ = 2 * SCALE
    /\ en_min_ground_speed_ \in BOOLEAN
    /\ min_gsp_cmd_ = 0
    /\ en_wind_excess_regulation_ \in BOOLEAN
    /\ wind_ratio_buffer_ = 10
    /\ InitRollConfig
    /\ InitState
    /\ last_call = "constructor"
    /\ locals \in RefAirVelocityInputs

\* whether a branch of refAirVelocity() calls infeasibleAirVelRef()
InfeasibleRegimes == {"min_gsp_infeasible", "infeasible"}

\* what refAirVelocity() meets on its way, the regime being known
refAirVelocityMet(in, wind_speed, wind_cross_bearing, wind_dot_bearing, airspeed_min, regime) ==
    [in EXCEPT !.called = TRUE,
               !.wind_speed = wind_speed,
               !.wind_cross_bearing = wind_cross_bearing,
               !.wind_dot_bearing = wind_dot_bearing,
               !.airspeed_min = airspeed_min,
               !.regime = regime,
               !.infeasible_direction =
                   IF regime \in InfeasibleRegimes
                   THEN infeasibleAirVelRefDirection(in.wind_vel, in.bearing_vec, wind_speed,
                                                     infeasibleAirspeedInput(regime))
                   ELSE <<0, 0>>]

CallRefAirVelocity ==
    /\ ~locals.called
    /\ \E wind_speed \in {Norm(locals.wind_vel)},
          wind_cross_bearing \in {cross2D(locals.wind_vel, locals.bearing_vec)},
          wind_dot_bearing \in {Dot(locals.wind_vel, locals.bearing_vec)} :
        \E airspeed_min \in {airspeedMin(wind_cross_bearing, wind_dot_bearing,
                                         locals.min_ground_speed)} :
            /\ air_vel_ref_' =
                   refAirVelocity(locals.wind_vel, locals.bearing_vec, wind_cross_bearing,
                                  wind_dot_bearing, wind_speed, locals.min_ground_speed)
            /\ locals' =
                   refAirVelocityMet(locals, wind_speed, wind_cross_bearing,
                       wind_dot_bearing, airspeed_min,
                       refAirVelocityRegime(wind_cross_bearing, wind_dot_bearing,
                           wind_speed, locals.min_ground_speed, airspeed_min))
    /\ airspeed_ref_' = Norm(air_vel_ref_')
    /\ last_call' = "refAirVelocity"
    /\ UNCHANGED <<config_vars, adapted_period_, p_gain_, time_const_, track_error_bound_,
                   bearing_vec_, feas_, feas_on_track_, min_ground_speed_ref_,
                   min_gsp_track_keeping_, track_proximity_, lateral_accel_ff_,
                   lateral_accel_, path_vars, roll_setpoint_>>

SpecRefAirVelocity == InitRefAirVelocity /\ [][CallRefAirVelocity]_vars

\* C6: every call of infeasibleAirVelRef() by refAirVelocity() meets the callee's
\* precondition wind_speed > airspeed > 0 for the airspeed handed over, and the vector
\* the callee normalizes is not the zero vector.
C6_InfeasiblePreconditionMet ==
    (locals.called /\ locals.regime \in InfeasibleRegimes) =>
        /\ Gt(locals.wind_speed, infeasibleAirspeedInput(locals.regime))
        /\ Gt(infeasibleAirspeedInput(locals.regime), 0)
        /\ locals.infeasible_direction # <<0, 0>>

\* the slack the fixed-point roundings of the wind triangle are allowed [m/s]
RoundingSlack == SCALE \div 25

\* C8: when the minimum ground speed is demanded, exceeds the wind along the bearing and
\* needs an airspeed of at most airspeed_max_, the reference air velocity has the
\* magnitude max(that airspeed, airspeed_nom_) and, added to the wind, an along-bearing
\* component of at least the minimum ground speed.
C8_MinGroundSpeedAchieved ==
    (/\ locals.called
     /\ en_wind_excess_regulation_ /\ (en_min_ground_speed_ \/ en_track_keeping_)
     /\ Gt(locals.min_ground_speed, locals.wind_dot_bearing)
     /\ Le(locals.airspeed_min, airspeed_max_)) =>
        /\ AbsInt(airspeed_ref_ - FMax(locals.airspeed_min, airspeed_nom_)) <= RoundingSlack
        /\ Dot(VAdd(air_vel_ref_, locals.wind_vel), locals.bearing_vec)
               >= locals.min_ground_speed - RoundingSlack

\* the minimum ground speed needs more than the nominal airspeed, in a wind with
\* components along and across the bearing, and is achieved
C8_MinGroundSpeedAboveNominal ==
    /\ locals.called
    /\ locals.regime = "min_gsp_in_range"
    /\ locals.wind_cross_bearing # 0
    /\ locals.wind_dot_bearing # 0
    /\ Gt(locals.airspeed_min, airspeed_nom_)

(***************************************************************************)
(* normalizedTrackError() and lookAheadAngle() on their own: the track    *)
(* error and its bound are drawn, the call stores both results            *)
(***************************************************************************)

\* the track errors: multiples of 5 m up to MaxTrackErrorSteps; the bounds: multiples of
\* 10 m, from one
MaxTrackErrorSteps == 14

TrackErrorInputs ==
    [track_error : {k * 5 * SCALE : k \in 0..MaxTrackErrorSteps},
     track_error_bound : {1} \cup {k * 10 * SCALE : k \in 1..6},
     called : {FALSE}, normalized_track_error : {0}, look_ahead_ang : {0}]

InitTrackError ==
    /\ InitConfig
    /\ InitState
    /\ last_call = "constructor"
    /\ locals \in TrackErrorInputs

\* the look-ahead angle of a normalized track error, stored with it
lookAheadMet(in, normalized_track_error) ==
    [in EXCEPT !.called = TRUE,
               !.normalized_track_error = normalized_track_error,
               !.look_ahead_ang = lookAheadAngle(normalized_track_error)]

CallLookAheadAngle ==
    /\ ~locals.called
    /\ locals' = lookAheadMet(locals,
                     normalizedTrackError(locals.track_error, locals.track_error_bound))
    /\ track_error_bound_' = locals.track_error_bound
    /\ track_proximity_' = trackProximity(locals'.look_ahead_ang)
    /\ last_call' = "lookAheadAngle"
    /\ UNCHANGED <<config_vars, adapted_period_, p_gain_, time_const_, bearing_vec_, feas_,
                   feas_on_track_, min_ground_speed_ref_, min_gsp_track_keeping_,
                   air_vel_ref_, airspeed_ref_, lateral_accel_ff_, lateral_accel_,
                   path_vars, roll_setpoint_>>

SpecTrackError == InitTrackError /\ [][CallLookAheadAngle]_vars

\* pi/2 as lookAheadAngle() computes it
HalfPi == FMul(M_PI_F, SCALE \div 2)

\* C7 as stated: the normalized track error lies in [0,1], the look-ahead angle is 0 at
\* track error 0 and pi/2 at a track error equal to the bound.
C7_AngleZeroOnTrack ==
    locals.called =>
        /\ Ge(locals.normalized_track_error, 0) /\ Le(locals.normalized_track_error, SCALE)
        /\ locals.track_error = 0 => locals.look_ahead_ang = 0
        /\ locals.track_error = locals.track_error_bound => locals.look_ahead_ang = HalfPi

\* C7, amended: the normalized track error lies in [0,1], the look-ahead angle is pi/2
\* at track error 0 and 0 at a track error equal to the bound.
C7_AngleHalfPiOnTrack ==
    locals.called =>
        /\ Ge(locals.normalized_track_error, 0) /\ Le(locals.normalized_track_error, SCALE)
        /\ locals.track_error = 0 => locals.look_ahead_ang = HalfPi
        /\ locals.track_error = locals.track_error_bound => locals.look_ahead_ang = 0

\* a track error on its bound, after the call
C7_TrackErrorOnBound ==
    /\ locals.called
    /\ locals.track_error = locals.track_error_bound
    /\ locals.normalized_track_error = SCALE
    /\ locals.look_ahead_ang = 0

(***************************************************************************)
(* Waypoint following over a grid of positions 50 m apart: A at the       *)
(* origin, B on the northward line from A, the vehicle around it; the     *)
(* vehicle flies north or east at CruiseSpeed, in calm air or in a breeze  *)
(***************************************************************************)

\* the grid of positions reaches MaxGridSteps steps north and east
MaxGridSteps == 2

\* one grid step, in units of 1e-5 deg
GridStep == 45

CruiseVels == {<<CruiseSpeed, 0>>, <<0, CruiseSpeed>>}

\* calm air, and a 3 m/s breeze from the north or from the east
Breezes == {<<0, 0>>, <<0 - 3 * SCALE, 0>>, <<0, 0 - 3 * SCALE>>}

FlyWaypoints ==
    \E b \in 0..MaxGridSteps, i \in (0 - 1)..MaxGridSteps, j \in (0 - 1)..1,
       ground_vel \in CruiseVels, wind_vel \in Breezes :
        navigateWaypoints(<<0, 0>>, <<b * GridStep, 0>>, <<i * GridStep, j * GridStep>>,
                          ground_vel, wind_vel)

SpecWaypoints == Init /\ [][FlyWaypoints]_vars

\* C9: the vector navigateWaypoints() normalizes is never the zero vector and the unit
\* path tangent handed to evaluate() is a defined unit vector, also when A and B
\* coincide and the vehicle is exactly at A.
C9_PathTangentDefined ==
    last_call = "navigateWaypoints" =>
        /\ locals.normalized_arg # <<0, 0>>
        /\ VecIsFinite(unit_path_tangent_)

(***************************************************************************)
(* Loitering around the origin: the vehicle at the centre or north of it, *)
(* standing, or flying north or east at CruiseSpeed in calm air           *)
(***************************************************************************)

\* the loiter radii [m]: below MIN_RADIUS, and 50 m
Radii == {SCALE \div 4, 50 * SCALE}

FlyLoiter ==
    \E i \in 0..MaxGridSteps, radius \in Radii, loiter_direction \in {0 - 1, 1},
       ground_vel \in CruiseVels \cup {<<0, 0>>} :
        navigateLoiter(<<0, 0>>, <<i * GridStep, 0>>, radius, loiter_direction,
                       ground_vel, <<0, 0>>)

SpecLoiter == Init /\ [][FlyLoiter]_vars

\* C10: in every navigateLoiter() call that reaches the feed-forward term, the
\* denominator max(1 - path_curvature * signed_track_error, path_curvature * MIN_RADIUS)
\* is strictly positive and the feed-forward lateral acceleration is finite.
C10_CurvatureDenominatorPositive ==
    (last_call = "navigateLoiter" /\ Ge(locals.airspeed, MIN_AIRSPEED)) =>
        /\ Gt(pathFrameCurvatureDenom(locals.path_curvature, signed_track_error_), 0)
        /\ IsFinite(lateral_accel_ff_)

(***************************************************************************)
(* Roll setpoint: limit, slew rate, non-finite candidates                  *)
(***************************************************************************)

NavigationCalls ==
    {"navigateWaypoints", "navigateLoiter", "navigateHeading", "navigateBearing",
     "navigateLevelFlight"}

\* whether slew rate limiting is in force
SlewLimiting == Gt(dt_, 0) /\ Gt(roll_slew_rate_, 0)

\* C1: after every navigation entry-point call the roll setpoint lies within
\* [-roll_lim_rad_, roll_lim_rad_], roll_lim_rad_ being the limit configured at that tick.
C1_RollWithinConfiguredLimit ==
    last_call \in NavigationCalls =>
        Le(FNeg(roll_lim_rad_), roll_setpoint_) /\ Le(roll_setpoint_, roll_lim_rad_)

\* C2 as stated: in a tick with slew limiting the roll setpoint moves by at most
\* roll_slew_rate_ * dt_; in a tick without, it jumps to the clamped candidate.
C2_SlewOrJumpToCandidate ==
    [][last_call' \in NavigationCalls =>
          IF SlewLimiting
          THEN AbsInt(roll_setpoint_' - roll_setpoint_) <= FMul(roll_slew_rate_, dt_)
          ELSE roll_setpoint_' = locals'.roll_new]_vars

\* C2, amended: in a tick with slew limiting the roll setpoint moves by at most
\* roll_slew_rate_ * dt_; in a tick without, it jumps to the clamped candidate when
\* that candidate is finite and stays where it was when it is not.
C2_SlewOrJumpToFiniteCandidate ==
    [][last_call' \in NavigationCalls =>
          IF SlewLimiting
          THEN AbsInt(roll_setpoint_' - roll_setpoint_) <= FMul(roll_slew_rate_, dt_)
          ELSE roll_setpoint_' = IF IsFinite(locals'.roll_new) THEN locals'.roll_new
                                 ELSE roll_setpoint_]_vars

\* a tick whose finite candidate the slew rate limit kept the setpoint from reaching
C2_SlewLimitHeldBack ==
    /\ last_call \in NavigationCalls
    /\ SlewLimiting
    /\ IsFinite(locals.roll_new)
    /\ roll_setpoint_ # locals.roll_new

\* C3: a tick whose roll candidate is not finite leaves the roll setpoint where it was,
\* and the roll setpoint is finite after any sequence of navigation calls.
C3_NonFiniteCandidateKeepsSetpoint ==
    /\ [](IsFinite(roll_setpoint_))
    /\ [][last_call' \in NavigationCalls /\ ~IsFinite(locals'.roll_new) =>
              roll_setpoint_' = roll_setpoint_]_vars

\* a tick with a NaN candidate after which a banked setpoint is still in place
C3_NaNCandidateBankKept ==
    /\ last_call \in NavigationCalls
    /\ IsNaN(locals.roll_new)
    /\ roll_setpoint_ # 0

(***************************************************************************)
(* Straight segments in calm air: A at the origin, B 100 m north or east,  *)
(* the vehicle on the segment's line or beside it, flying along the       *)
(* segment's direction                                                     *)
(***************************************************************************)

\* the vehicle is up to MaxOffsetSteps grid steps to the right of the segment
MaxOffsetSteps == 1

\* the directions of the segments: north and east
SegmentDirections == {<<1, 0>>, <<0, 1>>}

\* the right-hand side of a direction: a clockwise quarter turn seen from above
RightOf(direction) == <<0 - direction[2], direction[1]>>

\* the speeds along the segment: MIN_AIRSPEED and CruiseSpeed
SegmentSpeeds == {MIN_AIRSPEED, CruiseSpeed}

WindRatioBuffers == {0, SCALE}

InitSegment ==
    /\ InitPeriodConfig
    /\ airspeed_nom_ = 10 * SCALE
    /\ airspeed_max_ = 15 * SCALE
    /\ en_track_keeping_ = FALSE
    /\ min_gsp_track_keeping_max_ = 5 * SCALE
    /\ inv_nte_fraction_ = 2 * SCALE
    /\ en_min_ground_speed_ = FALSE
    /\ min_gsp_cmd_ = 0
    /\ en_wind_excess_regulation_ = TRUE
    /\ wind_ratio_buffer_ \in WindRatioBuffers
    /\ roll_lim_rad_ = 60
    /\ roll_slew_rate_ \in RollSlewRates
    /\ dt_ = 20
    /\ InitState
    /\ last_call = "constructor"
    /\ locals = Locals(<<0, 0>>, <<0, 0>>, <<SCALE, 0>>, <<0, 0>>, 0, FALSE, 0)

FlySegment ==
    \E direction \in SegmentDirections, along \in {0, 1},
       right \in (0 - 1)..MaxOffsetSteps, speed \in SegmentSpeeds :
        navigateWaypoints(<<0, 0>>,
                          <<2 * GridStep * direction[1], 2 * GridStep * direction[2]>>,
                          <<GridStep * (along * direction[1] + right * RightOf(direction)[1]),
                            GridStep * (along * direction[2] + right * RightOf(direction)[2])>>,
                          <<speed * direction[1], speed * direction[2]>>, <<0, 0>>)

SpecSegment == InitSegment /\ [][FlySegment]_vars

\* how far the vehicle is to the right of the path, seen along the path tangent
RightOfPath == Dot(locals.vector_to_vehicle, RightOf(unit_path_tangent_))

\* a navigateWaypoints() tick in calm air on a segment of nonzero length, the vehicle
\* past A and flying along the segment's direction at MIN_AIRSPEED or faster
AlongSegment ==
    /\ last_call = "navigateWaypoints"
    /\ locals.wind_vel = <<0, 0>>
    /\ Ge(Norm(locals.normalized_arg), EPSILON)
    /\ Ge(Dot(locals.normalized_arg, locals.vector_to_vehicle), 0)
    /\ cross2D(locals.ground_vel, locals.normalized_arg) = 0
    /\ Gt(Dot(locals.ground_vel, locals.normalized_arg), 0)
    /\ Ge(locals.airspeed, MIN_AIRSPEED)

\* C11: in calm air, with the vehicle exactly on a segment of nonzero length, past A and
\* flying along the segment at MIN_AIRSPEED or faster, navigateWaypoints() yields signed
\* track error 0, a bearing vector equal to the unit path tangent, feasibility 1, lateral
\* acceleration 0 and roll candidate 0, and the roll setpoint is 0 when it was 0 before
\* or slew rate limiting is off.
C11_OnTrackFliesStraight ==
    [][(AlongSegment' /\ RightOfPath' = 0) =>
          /\ signed_track_error_' = 0
          /\ bearing_vec_' = unit_path_tangent_'
          /\ feas_' = SCALE
          /\ lateral_accel_' = 0
          /\ locals'.roll_new = 0
          /\ (roll_setpoint_ = 0 \/ ~SlewLimiting) => roll_setpoint_' = 0]_vars

\* an on-track tick in which the slew rate limit is still taking out an earlier bank
C11_OnTrackStillLevelling ==
    /\ AlongSegment
    /\ RightOfPath = 0
    /\ SlewLimiting
    /\ roll_setpoint_ # 0

\* what C12 expects of a tick with the vehicle to the right of the segment, but for the
\* signed track error: a bearing vector tilted from the tangent toward the path, a
\* negative lateral acceleration and a negative roll candidate within the roll limit
TurnsLeftTowardPath ==
    /\ Lt(Dot(bearing_vec_, RightOf(unit_path_tangent_)), 0)
    /\ Ge(Dot(bearing_vec_, unit_path_tangent_), 0)
    /\ Lt(lateral_accel_, 0)
    /\ Lt(locals.roll_new, 0)
    /\ Ge(locals.roll_new, FNeg(roll_lim_rad_))

\* C12 as stated: in calm air, with the vehicle d > 0 to the right of the segment and
\* flying parallel to it, navigateWaypoints() yields signed track error -d, a bearing
\* vector tilted toward the path, and a negative lateral acceleration and roll candidate
\* within the roll limit.
C12_RightOfPathNegativeError ==
    (AlongSegment /\ Gt(RightOfPath, 0)) =>
        /\ signed_track_error_ = FNeg(RightOfPath)
        /\ TurnsLeftTowardPath

\* C12, amended: in calm air, with the vehicle d > 0 to the right of the segment and
\* flying parallel to it, navigateWaypoints() yields signed track error +d, a bearing
\* vector tilted toward the path, and a negative lateral acceleration and roll candidate
\* within the roll limit.
C12_RightOfPathPositiveError ==
    (AlongSegment /\ Gt(RightOfPath, 0)) =>
        /\ signed_track_error_ = RightOfPath
        /\ TurnsLeftTowardPath

\* a tick to the right of the segment and inside the track error bound, where the bearing
\* vector lies between the path tangent and the direction to the path
C12_RightOfPathInsideBound ==
    /\ AlongSegment
    /\ Gt(RightOfPath, 0)
    /\ Lt(RightOfPath, track_error_bound_)
    /\ Gt(Dot(bearing_vec_, unit_path_tangent_), 0)

(***************************************************************************)
(* The ground velocity of the air velocity reference: refAirVelocity() on *)
(* its own, as in SpecRefAirVelocity                                       *)
(***************************************************************************)

\* the branches of refAirVelocity() that call solveWindTriangle()
WindTriangleRegimes ==
    {"nominal_feasible", "max_feasible_minimal", "min_gsp_max_feasible",
     "min_gsp_in_range", "min_gsp_nominal"}

\* the ground velocity flown at the air velocity reference: evaluate() takes
\* air_vel = ground_vel - wind_vel
groundVelRef == VAdd(air_vel_ref_, locals.wind_vel)

\* C13: in every branch of refAirVelocity() that solves the wind triangle, the reference
\* air velocity plus the wind velocity has no component across the unit bearing vector
\* and a non-negative component along it (both to within RoundingSlack).
C13_GroundTrackAlongBearing ==
    (locals.called /\ locals.regime \in WindTriangleRegimes) =>
        /\ AbsInt(cross2D(groundVelRef, locals.bearing_vec)) <= RoundingSlack
        /\ Dot(groundVelRef, locals.bearing_vec) >= 0 - RoundingSlack

\* the wind triangle solved at the nominal airspeed in a wind with components across
\* and against the bearing
C13_CrabbingIntoHeadwind ==
    /\ locals.called
    /\ locals.regime = "nominal_feasible"
    /\ locals.wind_cross_bearing # 0
    /\ Lt(locals.wind_dot_bearing, 0)
    /\ air_vel_ref_[1] # 0 /\ air_vel_ref_[2] # 0

\* C14: with no minimum ground speed override, a bearing infeasible at airspeed_nom_ but
\* feasible at airspeed_max_, wind excess regulation enabled and the wind opposing the
\* bearing (wind_dot_bearing <= 0), the reference air velocity plus the wind velocity is
\* zero: a zero ground velocity configuration.
C14_OpposingWindZeroGroundVelocity ==
    (locals.called /\ locals.regime = "max_feasible_opposing") =>
        groundVelRef = <<0, 0>>

(***************************************************************************)
(* The airspeed reference of evaluate(): waypoint following northwards at *)
(* CruiseSpeed over ground in winds up to gale force, the minimum ground  *)
(* speed, track keeping and wind excess regulation switched on or off     *)
(***************************************************************************)

\* the wind components: multiples of GustStep up to MaxGustSteps either way
MaxGustSteps == 1

GustStep == 12 * SCALE

Gusts ==
    {<<i * GustStep, j * GustStep>> :
        i \in (0 - MaxGustSteps)..MaxGustSteps, j \in (0 - MaxGustSteps)..MaxGustSteps}

InitAirspeedRef ==
    /\ InitPeriodConfig
    /\ airspeed_nom_ = 10 * SCALE
    /\ airspeed_max_ = 15 * SCALE
    /\ en_track_keeping_ \in BOOLEAN
    /\ min_gsp_track_keeping_max_ = 5 * SCALE
    /\ inv_nte_fraction_ = 2 * SCALE
    /\ en_min_ground_speed_ \in BOOLEAN
    /\ min_gsp_cmd_ = 5 * SCALE
    /\ en_wind_excess_regulation_ \in BOOLEAN
    /\ wind_ratio_buffer_ = 10
    /\ InitRollConfig
    /\ InitState
    /\ last_call = "constructor"
    /\ locals = Locals(<<0, 0>>, <<0, 0>>, <<SCALE, 0>>, <<0, 0>>, 0, FALSE, 0)

FlyInGusts ==
    \E waypoint_B \in WaypointsB, vehicle_pos \in VehiclePositions, wind_vel \in Gusts :
        navigateWaypoints(<<0, 0>>, waypoint_B, vehicle_pos, <<CruiseSpeed, 0>>, wind_vel)

SpecAirspeedRef == InitAirspeedRef /\ [][FlyInGusts]_vars

\* the slack the fixed-point rounding of a normalized vector, scaled to an airspeed, is
\* allowed [m/s]
NormalizingSlack == SCALE \div 5

\* airspeed_ref_ lies between airspeed_nom_ and airspeed_max_, and is airspeed_nom_ with
\* wind excess regulation disabled (to within NormalizingSlack)
AirspeedRefWithinRange ==
    /\ Ge(airspeed_ref_, airspeed_nom_ - NormalizingSlack)
    /\ Le(airspeed_ref_, airspeed_max_ + NormalizingSlack)
    /\ ~en_wind_excess_regulation_ =>
           /\ Ge(airspeed_ref_, airspeed_nom_ - NormalizingSlack)
           /\ Le(airspeed_ref_, airspeed_nom_ + NormalizingSlack)

\* C15: after every evaluate() call with airspeed >= MIN_AIRSPEED, airspeed_ref_ lies
\* between airspeed_nom_ and airspeed_max_, and equals airspeed_nom_ whenever wind excess
\* regulation is disabled.
C15_AirspeedRefWithinRange ==
    (locals.evaluated /\ Ge(locals.airspeed, MIN_AIRSPEED)) => AirspeedRefWithinRange

\* the same after the evaluate() calls that were handed a defined unit path tangent
AirspeedRefWithinRangeOnDefinedTangent ==
    (locals.evaluated /\ Ge(locals.airspeed, MIN_AIRSPEED)
        /\ VecIsFinite(unit_path_tangent_)) => AirspeedRefWithinRange

(***************************************************************************)
(* Level flight, tick after tick: earlier ticks have left the controller   *)
(* banked, the slew rate and the tick duration are set and stay, and       *)
(* navigateLevelFlight() is called at every tick                           *)
(***************************************************************************)

\* the bank earlier ticks have left: k / MaxBankSteps of the roll limit, either way
MaxBankSteps == 6

Banks == {k * (60 \div MaxBankSteps) : k \in (0 - MaxBankSteps)..MaxBankSteps}

\* what the last evaluate() left in lateral_accel_, feas_ and airspeed_ref_: a calm tick
\* on track, or a tick in infeasible wind at airspeed_max_
EarlierTicks == {<<0, SCALE, 10 * SCALE>>, <<5 * SCALE, 0, 15 * SCALE>>}

InitLevelFlight ==
    /\ InitPeriodConfig
    /\ InitAirspeedConfig
    /\ roll_lim_rad_ = 60
    /\ roll_slew_rate_ \in RollSlewRates \cup {40}
    /\ dt_ \in TickDurations
    /\ adapted_period_ = 10 * SCALE
    /\ p_gain_ = pGain(10 * SCALE, 70)
    /\ time_const_ = timeConst(10 * SCALE, 70)
    /\ track_error_bound_ = 135 * SCALE
    /\ bearing_vec_ = <<SCALE, 0>>
    /\ feas_on_track_ = SCALE
    /\ min_ground_speed_ref_ = 0
    /\ min_gsp_track_keeping_ = 0
    /\ air_vel_ref_ = <<10 * SCALE, 0>>
    /\ track_proximity_ = 0
    /\ lateral_accel_ff_ = 0
    /\ \E earlier \in EarlierTicks :
        /\ lateral_accel_ = earlier[1]
        /\ feas_ = earlier[2]
        /\ airspeed_ref_ = earlier[3]
    /\ roll_setpoint_ \in Banks
    /\ path_type_loiter_ = FALSE
    /\ unit_path_tangent_ = <<SCALE, 0>>
    /\ signed_track_error_ = 0
    /\ last_call = "navigateWaypoints"
    /\ locals = Locals(<<0, 0>>, <<0, 0>>, <<SCALE, 0>>, <<0, 0>>, 0, FALSE, 0)

FlyLevel == \E heading \in Headings : navigateLevelFlight(heading)

\* one navigateLevelFlight() call per control loop tick, for ever
SpecLevelFlight == InitLevelFlight /\ [][FlyLevel]_vars /\ WF_vars(FlyLevel)

\* C16: under repeated navigateLevelFlight() calls with a constant configuration, the
\* magnitude of the roll setpoint never grows from one tick to the next, the setpoint
\* is 0 after one tick when slew rate limiting is off, each call leaves
\* airspeed_ref_ = airspeed_nom_, lateral_accel_ = 0 and feas_ = 1, and the roll setpoint
\* eventually reaches exactly 0 and stays there.
C16_LevelFlightLevelsOut ==
    /\ [][last_call' = "navigateLevelFlight" =>
              /\ AbsInt(roll_setpoint_') <= AbsInt(roll_setpoint_)
              /\ ~SlewLimiting => roll_setpoint_' = 0
              /\ airspeed_ref_' = airspeed_nom_
              /\ lateral_accel_' = 0
              /\ feas_' = SCALE]_vars
    /\ <>[](roll_setpoint_ = 0)

\* a level flight tick after which the slew rate limit still holds a bank, following a
\* tick that had left the bearing infeasible
C16_StillBankedAfterLevelTick ==
    /\ last_call = "navigateLevelFlight"
    /\ SlewLimiting
    /\ roll_setpoint_ # 0
    /\ AbsInt(roll_setpoint_) < 60 - 2 * FMul(roll_slew_rate_, dt_)

==========================================================================
